---- MODULE Spec2Model ----
(***************************************************************************)
(* A model of the session layer (pyfilemail/users.py, class User) and of   *)
(* the settings container (filemail/config.py, class Config).              *)
(*                                                                         *)
(* Spec       : one User object, its cookie jar, its settings dict and its *)
(*              transfers list, driven by the public methods of User.      *)
(* SpecConfig : one Config object and the files it can discover, driven by *)
(*              set / update / load / save.                                *)
(***************************************************************************)
EXTENDS Integers, Sequences, FiniteSets, TLC

VARIABLES
    username,     \* User.username
    config,       \* User.config, the dict read from the JSON settings file
    cookies,      \* User.session.cookies
    transfers,    \* User.transfers; each entry is the is_complete flag of a transfer
    last,         \* the last invocation on the User: what it sent and how it ended
    pre,          \* cookies / config / transfers as they were when `last` was invoked
    store,        \* Config._config
    config_file,  \* Config.config_file
    envvar,       \* value of the environment variable FILEMAIL_CONFIG_FILE
    fs,           \* the files on disk: path -> what the file holds, or Absent
    clast         \* the last invocation on the Config

uvars == <<username, config, cookies, transfers, last, pre>>
cvars == <<store, config_file, envvar, fs, clast>>
vars == <<username, config, cookies, transfers, last, pre,
          store, config_file, envvar, fs, clast>>

(***************************************************************************)
(* Python values.  None, strings, integers and booleans are kept apart, so *)
(* that "is None", truthiness and equality behave as they do in Python.    *)
(***************************************************************************)
None == [t |-> "none", s |-> "", n |-> 0]
Str(x) == [t |-> "str", s |-> x, n |-> 0]
IntV(i) == [t |-> "int", s |-> "", n |-> i]
BoolV(b) == [t |-> "bool", s |-> "", n |-> IF b THEN 1 ELSE 0]

\* Python truthiness: None, "", 0 and False are false.
Truthy(v) ==
    CASE v.t = "none" -> FALSE
      [] v.t = "str" -> v.s # ""
      [] OTHER -> v.n # 0

EmptyDict == [k \in {} |-> None]

\* dict.get(key): the value, or None when the key is absent
DictGet(d, k) == IF k \in DOMAIN d THEN d[k] ELSE None

\* dict.update(other): other's entries win
DictUpdate(d, other) == other @@ d

\* cookies[name] = value.  The jar drops the cookie when the value is None.
CookieSet(ck, k, v) ==
    IF v = None THEN [x \in (DOMAIN ck) \ {k} |-> ck[x]] ELSE (k :> v) @@ ck

(***************************************************************************)
(* Bounds and input sets of the User model.                                *)
(***************************************************************************)
MaxTransfers == 2
MaxRecords == 2

Usernames == {"alice"}
Passwords == {"pw"}
StoredConfigs == { ("apikey" :> Str("KEY1")) }
JarValues == {Str(""), Str("tok1")}

\* a response of the remote service: the status, the error code of a failure
\* body and the payload of a success body
Ok(body) == [status_code |-> 200, errorcode |-> 0, body |-> body]
Failure == [status_code |-> 403, errorcode |-> 1001, body |-> << >>]
PlainResponses == {Ok(<< >>), Failure}

NoReq == EmptyDict

\* what a call left behind: how it ended, the request it made (calls, req),
\* the status and listing (body) that came back, its keyword arguments (arg)
\* and what it returned
Outcome(op, err, code, calls, req, status, ret) ==
    [op |-> op, err |-> err, code |-> code, calls |-> calls,
     req |-> req, status |-> status, ret |-> ret, body |-> << >>, arg |-> EmptyDict]

Snapshot == [cookies |-> cookies, config |-> config, transfers |-> transfers]

(***************************************************************************)
(* errors.hellraiser: raises the structured error carrying the error code. *)
(***************************************************************************)
hellraiser(errorcode) == [err |-> "FMRemoteError", code |-> errorcode]

(***************************************************************************)
(* The properties of User.                                                 *)
(***************************************************************************)
is_anonymous(ck) == ~ Truthy(DictGet(ck, "logintoken"))

\* logged_in testing for a cookie being there instead of its truth value
logged_in_present(ck) == DictGet(ck, "logintoken") # None

logged_in(ck) ==
    LET tok == DictGet(ck, "logintoken")
    IN  IF Truthy(tok) THEN TRUE ELSE FALSE

\* a decorator that lets every call through
login_required_open(ck) == TRUE

\* the decorator: TRUE when the wrapped method is entered
login_required(ck) == logged_in(ck)

\* a loop that looks at the first transfer only
transfers_complete_first(ts) == Len(ts) = 0 \/ ts[1]

\* the property that raises 4003 on the first incomplete transfer:
\* TRUE when it returns without raising
transfers_complete(ts) == \A i \in 1..Len(ts) : ts[i]

\* the cookie jar after login's request came back: login stores nothing
login_cookies(ck, status) == ck

\* logout forgetting to clear the token
logout_cookies_kept(ck, status) == ck

\* logout clearing the token before it looks at the status
logout_cookies_early(ck, status) == CookieSet(ck, "logintoken", None)

\* the cookie jar after logout's request came back
logout_cookies(ck, status) ==
    IF status = 200 THEN CookieSet(ck, "logintoken", None) ELSE ck

login_payload(cfg, user, password) ==
    [k \in {"apikey", "username", "password", "source"} |->
        CASE k = "apikey" -> DictGet(cfg, "apikey")
          [] k = "username" -> Str(user)
          [] k = "password" -> Str(password)
          [] OTHER -> Str("Desktop")]

\* the payload of the calls that send exactly apikey and logintoken
token_payload(cfg, ck) ==
    [k \in {"apikey", "logintoken"} |->
        IF k = "apikey" THEN DictGet(cfg, "apikey") ELSE DictGet(ck, "logintoken")]

(***************************************************************************)
(* User.__init__                                                           *)
(***************************************************************************)
UserInit ==
    /\ username \in Usernames
    /\ config \in StoredConfigs
    /\ transfers = << >>
    /\ \E withPassword \in BOOLEAN, pw \in Passwords :
        LET jar0 == CookieSet(EmptyDict, "apikey", DictGet(config, "apikey"))
        IN  IF withPassword
            THEN \* login(password) answered 200 (any other answer raises and
                 \* no User object exists)
                 /\ cookies = CookieSet(login_cookies(jar0, 200), "source", Str("Desktop"))
                 /\ last = Outcome("__init__", "none", 0, 1,
                                   login_payload(config, username, pw), 200, << >>)
            ELSE /\ cookies = CookieSet(CookieSet(jar0, "source", Str("web")),
                                        "logintoken", None)
                 /\ last = Outcome("__init__", "none", 0, 0, NoReq, 0, << >>)
    /\ pre = [cookies |-> cookies, config |-> config, transfers |-> transfers]

Raised(op, e, calls, req, status) ==
    Outcome(op, e.err, e.code, calls, req, status, << >>)

\* login_required raising before the wrapped method is entered
Rejected(op) ==
    /\ last' = Outcome(op, "FMBaseError:login", 0, 0, NoReq, 0, << >>)
    /\ UNCHANGED <<username, config, cookies, transfers>>

(***************************************************************************)
(* User.login                                                              *)
(***************************************************************************)
Login(password, res) ==
    LET payload == login_payload(config, username, password)
    IN  /\ pre' = Snapshot
        /\ UNCHANGED cvars
        /\ cookies' = login_cookies(cookies, res.status_code)
        /\ last' = IF res.status_code = 200
                   THEN Outcome("login", "none", 0, 1, payload, res.status_code, << >>)
                   ELSE Raised("login", hellraiser(res.errorcode), 1, payload, res.status_code)
        /\ UNCHANGED <<username, config, transfers>>

(***************************************************************************)
(* User.logout                                                             *)
(***************************************************************************)
Logout(res) ==
    LET payload == token_payload(config, cookies)
    IN  /\ pre' = Snapshot
        /\ UNCHANGED cvars
        /\ IF ~ login_required(cookies) THEN Rejected("logout")
           ELSE IF ~ transfers_complete(transfers)
           THEN /\ last' = Raised("logout", hellraiser(4003), 0, NoReq, 0)
                /\ UNCHANGED <<username, config, cookies, transfers>>
           ELSE /\ cookies' = logout_cookies(cookies, res.status_code)
                /\ last' = IF res.status_code = 200
                           THEN Outcome("logout", "none", 0, 1, payload, res.status_code, << >>)
                           ELSE Raised("logout", hellraiser(res.errorcode), 1, payload, res.status_code)
                /\ UNCHANGED <<username, config, transfers>>

(***************************************************************************)
(* User._restore_transfers: one handle per record, in the response's order *)
(***************************************************************************)
Senders == {"alice", "bob"}
Records == [from : Senders, id : {1}]
Listings == UNION { [1..n -> Records] : n \in 0..MaxRecords }

\* the owner passed to Transfer(user, _restore=True): the User itself when
\* the record's sender is the current username, else the sender's name
Owner(sender, user) ==
    IF sender = user THEN [self |-> TRUE, name |-> ""]
    ELSE [self |-> FALSE, name |-> sender]

\* a reconstruction that hands the handles back newest first
restore_transfers_reversed(records, user) ==
    [i \in 1..Len(records) |->
        [owner |-> Owner(records[Len(records) + 1 - i].from, user),
         transfer_info |-> records[Len(records) + 1 - i]]]

restore_transfers(records, user) ==
    [i \in 1..Len(records) |->
        [owner |-> Owner(records[i].from, user), transfer_info |-> records[i]]]

(***************************************************************************)
(* User.get_sent                                                           *)
(***************************************************************************)
get_sent_payload(ck, expired, for_all) ==
    [k \in {"apikey", "logintoken", "getexpired", "getforallusers"} |->
        CASE k = "apikey" -> DictGet(ck, "apikey")
          [] k = "logintoken" -> DictGet(ck, "logintoken")
          [] k = "getexpired" -> BoolV(expired)
          [] OTHER -> BoolV(for_all)]

GetSent(expired, for_all, res) ==
    LET payload == get_sent_payload(cookies, expired, for_all)
    IN  /\ pre' = Snapshot
        /\ UNCHANGED cvars
        /\ IF ~ login_required(cookies) THEN Rejected("get_sent")
           ELSE /\ last' = IF res.status_code = 200
                           THEN [Outcome("get_sent", "none", 0, 1, payload, res.status_code,
                                         restore_transfers(res.body, username))
                                    EXCEPT !.body = res.body]
                           ELSE Raised("get_sent", hellraiser(res.errorcode), 1, payload, res.status_code)
                /\ UNCHANGED <<username, config, cookies, transfers>>

(***************************************************************************)
(* User.get_user_info                                                      *)
(***************************************************************************)
UserBodies == { ("name" :> Str("Al")) }

GetUserInfo(save_to_config, res) ==
    LET payload == token_payload(config, cookies)
    IN  /\ pre' = Snapshot
        /\ UNCHANGED cvars
        /\ IF ~ login_required(cookies) THEN Rejected("get_user_info")
           ELSE IF res.status_code = 200
           THEN /\ config' = IF save_to_config THEN DictUpdate(config, res.body) ELSE config
                /\ last' = Outcome("get_user_info", "none", 0, 1, payload, res.status_code, res.body)
                /\ UNCHANGED <<username, cookies, transfers>>
           ELSE /\ last' = Raised("get_user_info", hellraiser(res.errorcode), 1, payload, res.status_code)
                /\ UNCHANGED <<username, config, cookies, transfers>>

(***************************************************************************)
(* User.update_user_info: kwargs are merged first, then the whole config   *)
(* is sent as the request parameters                                       *)
(***************************************************************************)
KwargsSet == { EmptyDict, ("apikey" :> Str("KEY2")) }

update_user_info_config(cfg, kwargs) ==
    IF DOMAIN kwargs # {} THEN DictUpdate(cfg, kwargs) ELSE cfg

\* update_user_info taking the merge back when the service refuses
UpdateUserInfo_rollback(kwargs, res) ==
    LET merged == update_user_info_config(config, kwargs)
    IN  /\ pre' = Snapshot
        /\ UNCHANGED cvars
        /\ IF ~ login_required(cookies)
           THEN /\ last' = [Outcome("update_user_info", "FMBaseError:login", 0, 0, NoReq, 0, << >>)
                            EXCEPT !.arg = kwargs]
                /\ UNCHANGED <<username, config, cookies, transfers>>
           ELSE /\ config' = IF res.status_code = 200 THEN merged ELSE config
                /\ last' = [(IF res.status_code = 200
                             THEN Outcome("update_user_info", "none", 0, 1, merged,
                                          res.status_code, << >>)
                             ELSE Raised("update_user_info", hellraiser(res.errorcode), 1,
                                         merged, res.status_code))
                            EXCEPT !.arg = kwargs]
                /\ UNCHANGED <<username, cookies, transfers>>

UpdateUserInfo(kwargs, res) ==
    LET merged == update_user_info_config(config, kwargs)
    IN  /\ pre' = Snapshot
        /\ UNCHANGED cvars
        /\ IF ~ login_required(cookies)
           THEN /\ last' = [Outcome("update_user_info", "FMBaseError:login", 0, 0, NoReq, 0, << >>)
                            EXCEPT !.arg = kwargs]
                /\ UNCHANGED <<username, config, cookies, transfers>>
           ELSE /\ config' = merged
                /\ last' = [(IF res.status_code = 200
                             THEN Outcome("update_user_info", "none", 0, 1, merged,
                                          res.status_code, << >>)
                             ELSE Raised("update_user_info", hellraiser(res.errorcode), 1,
                                         merged, res.status_code))
                            EXCEPT !.arg = kwargs]
                /\ UNCHANGED <<username, cookies, transfers>>

(***************************************************************************)
(* User.get_received_files                                                 *)
(***************************************************************************)
\* (age, for_all) arguments: no age, each side of the 0..90 range, not an int
ReceivedArgs ==
    { <<None, TRUE>>, <<IntV(0), FALSE>>, <<IntV(5), TRUE>>, <<IntV(90), FALSE>>,
      <<IntV(91), TRUE>>, <<IntV(-1), TRUE>>, <<Str("x"), FALSE>> }
Clock == {8640000}

age_valid(age) == age.t = "int" /\ ~ (age.n < 0) /\ ~ (age.n > 90)

\* timegm((utcnow() - timedelta(days=age)).utctimetuple())
age_stamp(age, now) == IntV(now - age.n * 86400)

received_payload(cfg, ck, for_all, from) ==
    [k \in {"apikey", "logintoken", "getForAllUsers", "from"} |->
        CASE k = "apikey" -> DictGet(cfg, "apikey")
          [] k = "logintoken" -> DictGet(ck, "logintoken")
          [] k = "getForAllUsers" -> BoolV(for_all)
          [] OTHER -> from]

GetReceivedFiles(age, for_all, now, res) ==
    LET from == IF Truthy(age) THEN age_stamp(age, now) ELSE age
        payload == received_payload(config, cookies, for_all, from)
    IN  /\ pre' = Snapshot
        /\ UNCHANGED cvars
        /\ IF ~ login_required(cookies) THEN Rejected("get_received_files")
           ELSE /\ last' =
                     IF Truthy(age) /\ ~ age_valid(age)
                     THEN Outcome("get_received_files", "FMBaseError:age", 0, 0, NoReq, 0, << >>)
                     ELSE IF res.status_code = 200
                     THEN [Outcome("get_received_files", "none", 0, 1, payload, res.status_code,
                                   restore_transfers(res.body, username))
                              EXCEPT !.body = res.body]
                     ELSE Raised("get_received_files", hellraiser(res.errorcode), 1,
                                 payload, res.status_code)
                /\ UNCHANGED <<username, config, cookies, transfers>>

(***************************************************************************)
(* Contacts                                                                *)
(***************************************************************************)
Contact(id, name, email) ==
    [k \in {"contactid", "name", "email"} |->
        CASE k = "contactid" -> IntV(id)
          [] k = "name" -> Str(name)
          [] OTHER -> Str(email)]

ContactAnn == Contact(1, "Ann", "ann@x")
ContactBen == Contact(2, "Ben", "ben@x")
ContactBodies == { << >>, <<ContactAnn>>, <<ContactBen, ContactAnn>> }
Emails == {"ann@x", "zed@x"}

\* what callers pass as `contact`: a dict, or something that is not a dict
ContactArgs ==
    { [isdict |-> TRUE, d |-> ContactAnn],
      [isdict |-> TRUE, d |-> ("contactid" :> IntV(2))],
      [isdict |-> FALSE, d |-> EmptyDict] }

GetContacts(res) ==
    LET payload == token_payload(config, cookies)
    IN  /\ pre' = Snapshot
        /\ UNCHANGED cvars
        /\ IF ~ login_required(cookies) THEN Rejected("get_contacts")
           ELSE /\ last' = IF res.status_code = 200
                           THEN Outcome("get_contacts", "none", 0, 1, payload, res.status_code, res.body)
                           ELSE Raised("get_contacts", hellraiser(res.errorcode), 1,
                                       payload, res.status_code)
                /\ UNCHANGED <<username, config, cookies, transfers>>

\* the first contact of the list with this email, as a one-element sequence
find_contact(contacts, email) ==
    LET hits == { i \in 1..Len(contacts) : contacts[i]["email"] = Str(email) }
    IN  IF hits = {} THEN << >>
        ELSE << contacts[CHOOSE i \in hits : \A j \in hits : i <= j] >>

\* get_contact calls self.get_contacts(), which is guarded as well
GetContact(email, res) ==
    LET payload == token_payload(config, cookies)
        found == find_contact(res.body, email)
    IN  /\ pre' = Snapshot
        /\ UNCHANGED cvars
        /\ IF ~ login_required(cookies) THEN Rejected("get_contact")
           ELSE IF ~ login_required(cookies) THEN Rejected("get_contact")
           ELSE /\ last' =
                     IF res.status_code # 200
                     THEN Raised("get_contact", hellraiser(res.errorcode), 1, payload, res.status_code)
                     ELSE IF found = << >>
                     THEN Outcome("get_contact", "FMBaseError:nocontact", 0, 1, payload,
                                  res.status_code, << >>)
                     ELSE Outcome("get_contact", "none", 0, 1, payload, res.status_code, found)
                /\ UNCHANGED <<username, config, cookies, transfers>>

update_contact_payload(cfg, ck, d) ==
    [k \in {"apikey", "logintoken", "contactid", "name", "email"} |->
        CASE k = "apikey" -> DictGet(cfg, "apikey")
          [] k = "logintoken" -> DictGet(ck, "logintoken")
          [] OTHER -> DictGet(d, k)]

UpdateContact(contact, res) ==
    LET payload == update_contact_payload(config, cookies, contact.d)
    IN  /\ pre' = Snapshot
        /\ UNCHANGED cvars
        /\ IF ~ login_required(cookies) THEN Rejected("update_contact")
           ELSE /\ last' =
                     IF ~ contact.isdict
                     THEN Outcome("update_contact", "AttributeError", 0, 0, NoReq, 0, << >>)
                     ELSE IF res.status_code = 200
                     THEN Outcome("update_contact", "none", 0, 1, payload, res.status_code, << >>)
                     ELSE Raised("update_contact", hellraiser(res.errorcode), 1, payload, res.status_code)
                /\ UNCHANGED <<username, config, cookies, transfers>>

add_contact_payload(cfg, ck, name, email) ==
    [k \in {"apikey", "logintoken", "name", "email"} |->
        CASE k = "apikey" -> DictGet(cfg, "apikey")
          [] k = "logintoken" -> DictGet(ck, "logintoken")
          [] k = "name" -> Str(name)
          [] OTHER -> Str(email)]

AddContact(name, email, res) ==
    LET payload == add_contact_payload(config, cookies, name, email)
    IN  /\ pre' = Snapshot
        /\ UNCHANGED cvars
        /\ IF ~ login_required(cookies) THEN Rejected("add_contact")
           ELSE /\ last' =
                     IF res.status_code = 200
                     THEN Outcome("add_contact", "none", 0, 1, payload, res.status_code,
                                  res.body)
                     ELSE Raised("add_contact", hellraiser(res.errorcode), 1, payload, res.status_code)
                /\ UNCHANGED <<username, config, cookies, transfers>>

delete_contact_payload(cfg, ck, d) ==
    [k \in {"apikey", "logintoken", "contactid"} |->
        CASE k = "apikey" -> DictGet(cfg, "apikey")
          [] k = "logintoken" -> DictGet(ck, "logintoken")
          [] OTHER -> DictGet(d, "contactid")]

DeleteContact(contact, res) ==
    LET payload == delete_contact_payload(config, cookies, contact.d)
    IN  /\ pre' = Snapshot
        /\ UNCHANGED cvars
        /\ IF ~ login_required(cookies) THEN Rejected("delete_contact")
           ELSE /\ last' =
                     IF ~ contact.isdict
                     THEN Outcome("delete_contact", "AttributeError", 0, 0, NoReq, 0, << >>)
                     ELSE IF res.status_code = 200
                     THEN Outcome("delete_contact", "none", 0, 1, payload, res.status_code, << >>)
                     ELSE Raised("delete_contact", hellraiser(res.errorcode), 1, payload, res.status_code)
                /\ UNCHANGED <<username, config, cookies, transfers>>

(***************************************************************************)
(* What happens to the User from outside its own methods.                  *)
(*                                                                         *)
(* The cookie jar belongs to the HTTP session and is a public attribute:   *)
(* the transport stores cookies the service sets, and callers write to it. *)
(* The transfers list is filled by the Transfer collaborator, which also   *)
(* decides when a transfer is complete.                                    *)
(***************************************************************************)
Outside == Outcome("outside", "none", 0, 0, NoReq, 0, << >>)

CookieJarStore(v) ==
    /\ cookies' = CookieSet(cookies, "logintoken", v)
    /\ pre' = [Snapshot EXCEPT !.cookies = cookies']
    /\ last' = Outside
    /\ UNCHANGED cvars
    /\ UNCHANGED <<username, config, transfers>>

TransferStart ==
    /\ Len(transfers) < MaxTransfers
    /\ transfers' = Append(transfers, FALSE)
    /\ pre' = [Snapshot EXCEPT !.transfers = transfers']
    /\ last' = Outside
    /\ UNCHANGED cvars
    /\ UNCHANGED <<username, config, cookies>>

TransferFinish(i) ==
    /\ i \in 1..Len(transfers)
    /\ ~ transfers[i]
    /\ transfers' = [transfers EXCEPT ![i] = TRUE]
    /\ pre' = [Snapshot EXCEPT !.transfers = transfers']
    /\ last' = Outside
    /\ UNCHANGED cvars
    /\ UNCHANGED <<username, config, cookies>>

ListingResponses == { Ok(b) : b \in Listings } \cup {Failure}
UserResponses == { Ok(b) : b \in UserBodies } \cup {Failure}
ContactResponses == { Ok(b) : b \in ContactBodies } \cup {Failure}
AddResponses == { Ok(<<ContactAnn>>), Failure }

(***************************************************************************)
(* filemail/config.py: class Config                                        *)
(***************************************************************************)
required_keys == {"apikey", "password", "username"}

optional_keys ==
    {"country", "created", "defaultconfirmation", "defaultdays",
     "defaultdownloads", "defaultnotify", "defaultsubject", "email",
     "logintoken", "maxdays", "maxdownloads", "maxtransfersize",
     "membershipname", "name", "newsletter", "signature", "source",
     "subscription"}

valid_keys == required_keys \cup optional_keys

\* the attributes __init__ assigns to the instance
InstanceAttrs ==
    {"_config", "config_file", "required_keys", "optional_keys", "valid_keys"}

\* a validation that accepts every key
validKey_any(key) == TRUE

validKey(key) == key \in valid_keys

\* set() without the check on required keys
set_unchecked(st, key, value) ==
    IF validKey(key)
    THEN [store |-> (key :> value) @@ st, err |-> "none"]
    ELSE [store |-> st, err |-> "AttributeError"]

\* set() rejecting every empty value of a required key, not only None
set_truthy(st, key, value) ==
    IF validKey(key)
    THEN IF key \in required_keys /\ ~ Truthy(value)
         THEN [store |-> st, err |-> "FMConfigError"]
         ELSE [store |-> (key :> value) @@ st, err |-> "none"]
    ELSE [store |-> st, err |-> "AttributeError"]

\* set(key, value): the store afterwards and the exception raised, if any
set(st, key, value) ==
    IF validKey(key)
    THEN IF key \in required_keys /\ value = None
         THEN [store |-> st, err |-> "FMConfigError"]
         ELSE [store |-> (key :> value) @@ st, err |-> "none"]
    ELSE [store |-> st, err |-> "AttributeError"]

get(st, key) == IF key \in DOMAIN st THEN st[key] ELSE None

\* the loop of update() and of load(): set() on each item in turn, stopping
\* at the first one that raises; `applied` counts the items set before it
RECURSIVE set_each(_, _, _)
set_each(st, items, applied) ==
    IF items = << >> THEN [store |-> st, err |-> "none", applied |-> applied]
    ELSE LET r == set(st, Head(items).key, Head(items).value)
         IN  IF r.err # "none"
             THEN [store |-> r.store, err |-> r.err, applied |-> applied]
             ELSE set_each(r.store, Tail(items), applied + 1)

\* an update() that restores the store when an item is rejected
update_atomic(st, arg) ==
    IF ~ arg.isdict THEN [store |-> st, err |-> "Exception", applied |-> 0]
    ELSE LET r == set_each(st, arg.items, 0)
         IN  IF r.err = "none" THEN r ELSE [r EXCEPT !.store = st]

update(st, arg) ==
    IF ~ arg.isdict THEN [store |-> st, err |-> "Exception", applied |-> 0]
    ELSE set_each(st, arg.items, 0)

(***************************************************************************)
(* Paths and files.  A path is a directory and a file name; a file is what *)
(* ConfigParser finds in it: the DEFAULT entries and the sections.         *)
(***************************************************************************)
Path(dir, base) == [dir |-> dir, base |-> base]
NoPath == Path("<None>", "")          \* config_file is None
EmptyPath == Path("", "")              \* os.getenv(..., '') when the variable is unset
EnvCfg == Path("/etc/fm", "filemail.cfg")
EnvOther == Path("/etc/fm", "other.ini")
HerePath == Path("/pkg", "filemail.cfg")       \* dirname(dirname(__file__))/filemail.cfg
HomePath == Path("/home/u", "filemail.cfg")    \* ~/filemail.cfg
ConfigPaths == {EnvCfg, HerePath, HomePath}
Paths == ConfigPaths \cup {EnvOther}
EnvValues == {EmptyPath, EnvCfg, EnvOther}

basename(p) == p.base
isfile(files, p) == p \in DOMAIN files /\ files[p].exists

Absent == [exists |-> FALSE, defaults |-> << >>, sections |-> << >>]
File(defaults, sections) == [exists |-> TRUE, defaults |-> defaults, sections |-> sections]

\* what each file holds when something outside the program creates it
FileAt(p) ==
    CASE p = EnvCfg ->
            File(<< >>, ("alice" :> (("apikey" :> "X") @@ ("Name" :> "Alice"))))
      [] p = EnvOther ->
            File(<< >>, ("alice" :> ("apikey" :> "Z")))
      [] p = HerePath ->
            File(<< >>, ("alice" :> (("bogus" :> "1") @@ ("apikey" :> "Y"))))
      [] OTHER ->
            File(("email" :> "d@x"), ("bob" :> ("password" :> "pb")))

\* ConfigParser.optionxform: option names are lower-cased when read
LowerOf == ("Name" :> "name")
optionxform(k) == IF k \in DOMAIN LowerOf THEN LowerOf[k] ELSE k

xform_keys(d) ==
    [k \in { optionxform(r) : r \in DOMAIN d } |->
        d[CHOOSE r \in DOMAIN d : optionxform(r) = k]]

\* items() reading the section alone, without the DEFAULT entries
items_section_only(file, section) ==
    LET d == xform_keys(file.sections[section])
    IN  [k \in DOMAIN d |-> Str(d[k])]

\* ConfigParser.items(section): the section's options over the DEFAULT ones,
\* every value a string
items(file, section) ==
    LET d == xform_keys(file.sections[section]) @@ xform_keys(file.defaults)
    IN  [k \in DOMAIN d |-> Str(d[k])]

\* the orders in which a dict can hand out its items
Orders(d) ==
    { o \in [1..Cardinality(DOMAIN d) -> DOMAIN d] :
        \A i, j \in DOMAIN o : i # j => o[i] # o[j] }

ItemsIn(d, order) == [i \in DOMAIN order |-> [key |-> order[i], value |-> d[order[i]]]]

(***************************************************************************)
(* Config._locateConfig: the path found, which is also cached              *)
(***************************************************************************)
locations(env) == << env, HerePath, HomePath >>

\* a test of one path that forgets the file name
candidate_anyname(files, path) == isfile(files, path)

candidate(files, path) == isfile(files, path) /\ basename(path) = "filemail.cfg"

\* a search that keeps the last location found instead of the first
locateConfig_last(cf, env, files) ==
    IF cf # NoPath THEN cf
    ELSE LET locs == locations(env)
             hits == { i \in 1..Len(locs) : candidate(files, locs[i]) }
         IN  IF hits = {} THEN NoPath
             ELSE locs[CHOOSE i \in hits : \A j \in hits : j <= i]

\* a search that falls back to ~/filemail.cfg, as save() does
locateConfig_home(cf, env, files) ==
    IF cf # NoPath THEN cf
    ELSE LET locs == locations(env)
             hits == { i \in 1..Len(locs) : candidate(files, locs[i]) }
         IN  IF hits = {} THEN HomePath
             ELSE locs[CHOOSE i \in hits : \A j \in hits : i <= j]

locateConfig(cf, env, files) ==
    IF cf # NoPath THEN cf
    ELSE LET locs == locations(env)
             hits == { i \in 1..Len(locs) : candidate(files, locs[i]) }
         IN  IF hits = {} THEN NoPath
             ELSE locs[CHOOSE i \in hits : \A j \in hits : i <= j]

(***************************************************************************)
(* Bounds and input sets of the Config model.                              *)
(***************************************************************************)
MaxUpdate == 3

ConfigUsers == {Str("alice"), Str("bob")}
\* the (key, value) arguments of set(): a required key with None, with the
\* empty string and with a value; an optional key; a key outside the schema
Items ==
    { [key |-> "apikey", value |-> None], [key |-> "apikey", value |-> Str("")],
      [key |-> "apikey", value |-> Str("v")], [key |-> "name", value |-> None],
      [key |-> "name", value |-> Str("v")], [key |-> "bogus", value |-> Str("v")],
      [key |-> "bogus", value |-> None] }

\* the items of the mappings update() is given
UpdateItems ==
    { [key |-> "apikey", value |-> None], [key |-> "apikey", value |-> Str("w")],
      [key |-> "name", value |-> Str("w")], [key |-> "bogus", value |-> Str("w")] }

\* the item lists of those mappings, in every order: no key twice
ItemLists ==
    UNION { { l \in [1..n -> UpdateItems] :
                \A i, j \in 1..n : i # j => l[i].key # l[j].key } : n \in 0..MaxUpdate }
UpdateArgs ==
    { [isdict |-> TRUE, items |-> l] : l \in ItemLists }
        \cup { [isdict |-> FALSE, items |-> << >>] }
CtorKwargs == { << >>, << [key |-> "apikey", value |-> Str("v")] >> }

COutcome(op, err, key, value, its, applied) ==
    [op |-> op, err |-> err, key |-> key, value |-> value,
     items |-> its, applied |-> applied]

COutside == COutcome("outside", "none", "", None, << >>, 0)

(***************************************************************************)
(* Config.__init__                                                         *)
(***************************************************************************)
ConfigInit ==
    /\ envvar \in EnvValues
    /\ \E present \in SUBSET ConfigPaths :
          fs = [p \in Paths |->
                   IF p \in present \cup {EnvOther} THEN FileAt(p) ELSE Absent]
    /\ \E user \in ConfigUsers, kwargs \in CtorKwargs :
          LET r1 == set(EmptyDict, "username", user)
              r2 == IF kwargs # << >>
                    THEN update(r1.store, [isdict |-> TRUE, items |-> kwargs])
                    ELSE [store |-> r1.store, err |-> "none", applied |-> 0]
          IN  /\ r1.err = "none"
              /\ r2.err = "none"
              /\ store = r2.store
              /\ clast = COutcome("__init__", "none", "", None, kwargs, r2.applied)
    /\ config_file = locateConfig(NoPath, envvar, fs)

(***************************************************************************)
(* Config.set / Config.update                                              *)
(***************************************************************************)
CSet(key, value) ==
    LET r == set(store, key, value)
    IN  /\ store' = r.store
        /\ clast' = COutcome("set", r.err, key, value, << >>, 0)
        /\ UNCHANGED <<config_file, envvar, fs>>
        /\ UNCHANGED uvars

CUpdate(arg) ==
    LET r == update(store, arg)
    IN  /\ store' = r.store
        /\ clast' = COutcome("update", r.err, "", None, arg.items, r.applied)
        /\ UNCHANGED <<config_file, envvar, fs>>
        /\ UNCHANGED uvars

(***************************************************************************)
(* Config.load                                                             *)
(***************************************************************************)
\* load() raising 'No config file found' when there is no file
CLoad_raises ==
    LET cf == IF config_file = NoPath
              THEN locateConfig(config_file, envvar, fs)
              ELSE config_file
        user == get(store, "username")
    IN  /\ config_file' = cf
        /\ UNCHANGED <<envvar, fs>>
        /\ UNCHANGED uvars
        /\ IF cf = NoPath
           THEN /\ clast' = COutcome("load", "FMConfigError", "", None, << >>, 0)
                /\ UNCHANGED store
           ELSE IF ~ isfile(fs, cf)
           THEN /\ clast' = COutcome("load", "IOError", "", None, << >>, 0)
                /\ UNCHANGED store
           ELSE IF user.t = "str" /\ user.s \in DOMAIN fs[cf].sections
           THEN LET env == items(fs[cf], user.s)
                IN  \E order \in Orders(env) :
                       LET its == ItemsIn(env, order)
                           r == set_each(store, its, 0)
                       IN  /\ store' = r.store
                           /\ clast' = COutcome("load", r.err, "", None, its, r.applied)
           ELSE /\ clast' = COutcome("load", "none", "", None, << >>, 0)
                /\ UNCHANGED store

CLoad ==
    LET cf == IF config_file = NoPath
              THEN locateConfig(config_file, envvar, fs)
              ELSE config_file
        user == get(store, "username")
    IN  /\ config_file' = cf
        /\ UNCHANGED <<envvar, fs>>
        /\ UNCHANGED uvars
        /\ IF cf = NoPath
           THEN /\ clast' = COutcome("load", "none", "", None, << >>, 0)
                /\ UNCHANGED store
           ELSE IF ~ isfile(fs, cf)
           THEN /\ clast' = COutcome("load", "IOError", "", None, << >>, 0)
                /\ UNCHANGED store
           ELSE IF user.t = "str" /\ user.s \in DOMAIN fs[cf].sections
           THEN LET env == items(fs[cf], user.s)
                IN  \E order \in Orders(env) :
                       LET its == ItemsIn(env, order)
                           r == set_each(store, its, 0)
                       IN  /\ store' = r.store
                           /\ clast' = COutcome("load", r.err, "", None, its, r.applied)
           ELSE /\ clast' = COutcome("load", "none", "", None, << >>, 0)
                /\ UNCHANGED store

(***************************************************************************)
(* Config.save                                                             *)
(***************************************************************************)
\* str(value), as ConfigParser.write formats it
ToStr(v) == CASE v.t = "none" -> "None" [] v.t = "str" -> v.s

save_section(st) == [k \in DOMAIN st |-> ToStr(st[k])]

CSave ==
    /\ UNCHANGED uvars
    /\ IF config_file # NoPath
       THEN \* the local name config_file is bound only when self.config_file is None
            /\ clast' = COutcome("save", "UnboundLocalError", "", None, << >>, 0)
            /\ UNCHANGED <<store, config_file, envvar, fs>>
       ELSE LET located == locateConfig(config_file, envvar, fs)
                target == IF located = NoPath THEN HomePath ELSE located
            IN  IF "_username" \notin InstanceAttrs
                THEN \* add_section(self._username): no such attribute
                     /\ config_file' = located
                     /\ clast' = COutcome("save", "AttributeError", "", None, << >>, 0)
                     /\ UNCHANGED <<store, envvar, fs>>
                ELSE /\ fs' = [fs EXCEPT ![target] =
                                  File(<< >>, (get(store, "username").s :> save_section(store)))]
                     /\ config_file' = target
                     /\ clast' = COutcome("save", "none", "", None, << >>, 0)
                     /\ UNCHANGED <<store, envvar>>

(***************************************************************************)
(* Files appearing and disappearing under the program.                     *)
(***************************************************************************)
FsCreate(p) ==
    /\ ~ fs[p].exists
    /\ fs' = [fs EXCEPT ![p] = FileAt(p)]
    /\ clast' = COutside
    /\ UNCHANGED uvars
    /\ UNCHANGED <<store, config_file, envvar>>

FsRemove(p) ==
    /\ fs[p].exists
    /\ fs' = [fs EXCEPT ![p] = Absent]
    /\ clast' = COutside
    /\ UNCHANGED uvars
    /\ UNCHANGED <<store, config_file, envvar>>

(***************************************************************************)
(* The two specifications.  Each leaves the other object as constructed.   *)
(***************************************************************************)
ConfigIdle ==
    /\ envvar = EmptyPath
    /\ fs = [p \in Paths |-> Absent]
    /\ store = ("username" :> Str("alice"))
    /\ config_file = NoPath
    /\ clast = COutcome("__init__", "none", "", None, << >>, 0)

UserIdle ==
    /\ username = "alice"
    /\ config = ("apikey" :> Str("KEY1"))
    /\ transfers = << >>
    /\ cookies = (("apikey" :> Str("KEY1")) @@ ("source" :> Str("web")))
    /\ last = Outcome("__init__", "none", 0, 0, NoReq, 0, << >>)
    /\ pre = [cookies |-> cookies, config |-> config, transfers |-> transfers]

Init == UserInit /\ ConfigIdle

Next ==
    \/ \E pw \in Passwords, res \in PlainResponses : Login(pw, res)
    \/ \E res \in PlainResponses : Logout(res)
    \/ \E e \in BOOLEAN, a \in BOOLEAN, res \in ListingResponses : GetSent(e, a, res)
    \/ \E sv \in BOOLEAN, res \in UserResponses : GetUserInfo(sv, res)
    \/ \E kw \in KwargsSet, res \in PlainResponses : UpdateUserInfo(kw, res)
    \/ \E arg \in ReceivedArgs, now \in Clock, res \in ListingResponses :
          GetReceivedFiles(arg[1], arg[2], now, res)
    \/ \E res \in ContactResponses : GetContacts(res)
    \/ \E em \in Emails, res \in ContactResponses : GetContact(em, res)
    \/ \E c \in ContactArgs, res \in PlainResponses : UpdateContact(c, res)
    \/ \E em \in Emails, res \in AddResponses : AddContact("Zed", em, res)
    \/ \E c \in ContactArgs, res \in PlainResponses : DeleteContact(c, res)
    \/ \E v \in JarValues : CookieJarStore(v)
    \/ TransferStart
    \/ \E i \in 1..MaxTransfers : TransferFinish(i)

Spec == Init /\ [][Next]_vars

InitConfig == ConfigInit /\ UserIdle

NextConfig ==
    \/ \E it \in Items : CSet(it.key, it.value)
    \/ \E a \in UpdateArgs : CUpdate(a)
    \/ CLoad
    \/ CSave
    \/ \E p \in ConfigPaths : FsCreate(p)
    \/ \E p \in ConfigPaths : FsRemove(p)

SpecConfig == InitConfig /\ [][NextConfig]_vars

(***************************************************************************)
(* Properties of the session (checked under Spec).                         *)
(***************************************************************************)
GuardedOps ==
    {"get_sent", "get_received_files", "get_user_info", "update_user_info",
     "get_contacts", "get_contact", "update_contact", "add_contact",
     "delete_contact", "logout"}

Token(ck) == DictGet(ck, "logintoken")
NonEmpty(v) == v # None /\ v # Str("")
SomeIncomplete(ts) == \E i \in 1..Len(ts) : ~ ts[i]

\* C1: a guarded operation invoked while logged_in is false fails with the
\* "please login" error, makes no network call, and leaves the cookies, the
\* config and the transfers list as they were.
C1_GuardRejects ==
    (last.op \in GuardedOps /\ ~ NonEmpty(Token(pre.cookies)))
        => /\ last.err = "FMBaseError:login"
           /\ last.calls = 0
           /\ last.req = NoReq
           /\ cookies = pre.cookies
           /\ config = pre.config
           /\ transfers = pre.transfers

C1_Witness ==
    /\ last.op = "update_user_info"
    /\ last.err = "FMBaseError:login"
    /\ Token(pre.cookies) = Str("")
    /\ Len(transfers) > 0

\* C2: when login is called on an anonymous session and the service answers
\* 200, the logintoken is non-empty and logged_in is true once login returns.
C2_LoginAuthenticates ==
    (last.op = "login" /\ last.status = 200 /\ ~ NonEmpty(Token(pre.cookies)))
        => /\ NonEmpty(Token(cookies))
           /\ logged_in(cookies)

\* C3: logout invoked while authenticated with some transfer incomplete fails
\* with error 4003, sends no request, and leaves the logintoken as it was, so
\* that logged_in is still true.
C3_LogoutIncomplete ==
    (last.op = "logout" /\ NonEmpty(Token(pre.cookies)) /\ SomeIncomplete(pre.transfers))
        => /\ last.err = "FMRemoteError"
           /\ last.code = 4003
           /\ last.calls = 0
           /\ last.req = NoReq
           /\ Token(cookies) = Token(pre.cookies)
           /\ logged_in(cookies)

C3_Witness ==
    /\ last.op = "logout"
    /\ last.code = 4003
    /\ pre.transfers = <<TRUE, FALSE>>
    /\ logged_in(cookies)

\* logout was invoked while authenticated with every transfer complete, and
\* the service answered 200
LogoutSucceeded ==
    /\ last.op = "logout"
    /\ NonEmpty(Token(pre.cookies))
    /\ ~ SomeIncomplete(pre.transfers)
    /\ last.status = 200

\* what such a logout has sent and what it leaves behind
C4_LogoutEffect ==
    LogoutSucceeded
        => /\ last.err = "none"
           /\ last.calls = 1
           /\ DictGet(last.req, "apikey") = DictGet(pre.config, "apikey")
           /\ DictGet(last.req, "logintoken") = Token(pre.cookies)
           /\ Token(cookies) = None
           /\ ~ logged_in(cookies)
           /\ is_anonymous(cookies)

\* C4: logout invoked while authenticated with every transfer complete and
\* answered 200 has sent the apikey and the current logintoken, clears the
\* logintoken and leaves logged_in false; a guarded operation invoked next is
\* rejected by the guard.
C4_LogoutClears ==
    /\ [] C4_LogoutEffect
    /\ [][ (LogoutSucceeded /\ last'.op \in GuardedOps)
              => (last'.err = "FMBaseError:login" /\ last'.calls = 0) ]_vars

C4_Witness ==
    /\ LogoutSucceeded
    /\ last.err = "none"
    /\ Len(pre.transfers) = MaxTransfers

\* C5: a login or a logout answered with a status other than 200 raises the
\* remote error and leaves logintoken, source and logged_in as they were.
C5_FailureKeepsState ==
    (last.op \in {"login", "logout"} /\ last.calls = 1 /\ last.status # 200)
        => /\ last.err = "FMRemoteError"
           /\ last.code = 1001
           /\ Token(cookies) = Token(pre.cookies)
           /\ DictGet(cookies, "source") = DictGet(pre.cookies, "source")
           /\ logged_in(cookies) = logged_in(pre.cookies)

C5_Witness ==
    /\ last.op = "logout"
    /\ last.status = 403
    /\ last.err = "FMRemoteError"
    /\ logged_in(cookies)

\* C6: logged_in is true exactly when the logintoken cookie holds a non-empty
\* value, and is_anonymous is the negation of logged_in.
C6_LoggedInIffToken ==
    /\ logged_in(cookies) <=> NonEmpty(Token(cookies))
    /\ is_anonymous(cookies) <=> ~ logged_in(cookies)

C6_Witness ==
    /\ last.op = "get_contacts"
    /\ last.err = "none"
    /\ logged_in(cookies)
    /\ ~ is_anonymous(cookies)

(***************************************************************************)
(* Properties of the settings container (checked under SpecConfig).        *)
(***************************************************************************)
Schema ==
    {"apikey", "password", "username"} \cup
    {"country", "created", "defaultconfirmation", "defaultdays",
     "defaultdownloads", "defaultnotify", "defaultsubject", "email",
     "logintoken", "maxdays", "maxdownloads", "maxtransfersize",
     "membershipname", "name", "newsletter", "signature", "source",
     "subscription"}
Required == {"apikey", "password", "username"}

\* C7: every key in the store is a key of the schema, and set() on a key
\* outside the schema raises and leaves the store as it was.
C7_OnlySchemaKeys ==
    /\ [] (DOMAIN store \subseteq Schema)
    /\ [][ (clast'.op = "set" /\ clast'.key \notin Schema)
              => (clast'.err = "AttributeError" /\ store' = store) ]_vars

C7_Witness ==
    /\ clast.op = "set"
    /\ clast.key = "bogus"
    /\ clast.err = "AttributeError"
    /\ DOMAIN store = {"username", "apikey", "name"}

\* C8: no required key is in the store with the value None; set(k, None) on a
\* required key raises and leaves the store as it was; set(k, v) on a required
\* key with v other than None succeeds and get(k) returns v afterwards.
C8_RequiredNeverNone ==
    /\ [] (\A k \in Required \cap DOMAIN store : store[k] # None)
    /\ [][ (clast'.op = "set" /\ clast'.key \in Required /\ clast'.value = None)
              => (clast'.err = "FMConfigError" /\ store' = store) ]_vars
    /\ [][ (clast'.op = "set" /\ clast'.key \in Required /\ clast'.value # None)
              => (clast'.err = "none" /\ get(store', clast'.key) = clast'.value) ]_vars

C8_Witness ==
    /\ clast.op = "set"
    /\ clast.key = "apikey"
    /\ clast.value = None
    /\ clast.err = "FMConfigError"
    /\ get(store, "apikey") = Str("X")

\* what load() on a fresh Config(user) pointed at `file` ends up holding
FreshLoad(user, file) ==
    LET start == ("username" :> Str(user))
    IN  IF user \in DOMAIN file.sections
        THEN LET env == items(file, user)
                 order == CHOOSE o \in Orders(env) : TRUE
             IN  set_each(start, ItemsIn(env, order), 0).store
        ELSE start

\* C9: save() succeeds and caches the path it wrote, and load() on a fresh
\* store for the same username and that path gives back every saved value.
C9_SaveRoundTrip ==
    clast.op = "save"
        => /\ clast.err = "none"
           /\ config_file # NoPath
           /\ isfile(fs, config_file)
           /\ LET user == get(store, "username").s
                  back == FreshLoad(user, fs[config_file])
              IN  \A k \in DOMAIN store : get(back, k) = store[k]

\* an entry set() rejects: a key outside the schema, or a required key with None
Rejectable(it) ==
    \/ it.key \notin Schema
    \/ (it.key \in Required /\ it.value = None)

FirstRejected(its) ==
    CHOOSE i \in 1..Len(its) :
        Rejectable(its[i]) /\ \A j \in 1..(i - 1) : ~ Rejectable(its[j])

\* C10: when an entry of the mapping is one set() rejects, update() raises, the
\* entries before the first such entry hold their new values, and that entry
\* and the ones after it are not applied.
C10_UpdateBestEffort ==
    [][ (clast'.op = "update" /\ \E i \in 1..Len(clast'.items) : Rejectable(clast'.items[i]))
          => LET its == clast'.items
                 f == FirstRejected(its)
             IN  /\ clast'.err \in {"AttributeError", "FMConfigError"}
                 /\ \A i \in 1..(f - 1) : get(store', its[i].key) = its[i].value
                 /\ \A i \in f..Len(its) : get(store', its[i].key) = get(store, its[i].key)
                 /\ \A k \in DOMAIN store' : k \in DOMAIN store \/ \E i \in 1..(f - 1) : its[i].key = k
       ]_vars

C10_Witness ==
    /\ clast.op = "update"
    /\ Len(clast.items) = 3
    /\ clast.items[1].key = "name"
    /\ Rejectable(clast.items[2])
    /\ clast.items[3] = [key |-> "apikey", value |-> Str("w")]
    /\ clast.err = "AttributeError"
    /\ get(store, "name") = Str("w")
    /\ get(store, "apikey") # Str("w")

(***************************************************************************)
(* Properties of the file search (checked under SpecConfig).               *)
(***************************************************************************)
Exists(p) == p \in DOMAIN fs /\ fs[p].exists
ExistsNamed(p) == Exists(p) /\ p.base = "filemail.cfg"

\* the first of the environment path, the installation path and the home
\* path that passes the test; NoPath when none does
FirstOf(Test(_)) ==
    IF Test(envvar) THEN envvar
    ELSE IF Test(HerePath) THEN HerePath
    ELSE IF Test(HomePath) THEN HomePath
    ELSE NoPath

\* a step of load() or save() entered with no path cached: both search
Searches == clast'.op \in {"load", "save"} /\ config_file = NoPath

\* C11 as stated: with no path cached, the search returns the first path that
\* exists, in the order environment variable, installation directory, home
\* directory, and not-found when none exists.
C11_FirstExisting ==
    /\ [] (clast.op = "__init__" => config_file = FirstOf(Exists))
    /\ [][ Searches => config_file' = FirstOf(Exists) ]_vars

\* C11 amended: with no path cached, the search returns the first path, in
\* that order, that exists and is named filemail.cfg, and not-found when
\* there is none.
C11_FirstExistingNamed ==
    /\ [] (clast.op = "__init__" => config_file = FirstOf(ExistsNamed))
    /\ [][ Searches => config_file' = FirstOf(ExistsNamed) ]_vars

C11_Witness ==
    /\ clast.op = "__init__"
    /\ envvar = EnvCfg
    /\ \A p \in Paths : fs[p].exists
    /\ config_file = EnvCfg

\* C14: load() entered with no path cached and no file to discover returns
\* without raising and leaves the store and config_file as they were.
C14_LoadNoFile ==
    [][ (clast'.op = "load" /\ config_file = NoPath /\ FirstOf(ExistsNamed) = NoPath)
          => /\ clast'.err = "none"
             /\ store' = store
             /\ config_file' = NoPath ]_vars

C14_Witness ==
    /\ clast.op = "load"
    /\ clast.err = "none"
    /\ config_file = NoPath
    /\ envvar = EnvOther
    /\ Exists(EnvOther)
    /\ get(store, "apikey") = Str("w")

\* C18: a path that exists but is not named filemail.cfg is never returned by
\* the search and never cached as config_file, also when the environment
\* variable points at it.
C18_WrongNameNotFound ==
    /\ [] (config_file # NoPath => config_file.base = "filemail.cfg")
    /\ [][ (Searches /\ Exists(envvar) /\ envvar.base # "filemail.cfg")
              => /\ config_file' # envvar
                 /\ config_file' = (IF Exists(HerePath) THEN HerePath
                                    ELSE IF Exists(HomePath) THEN HomePath
                                    ELSE NoPath) ]_vars

C18_Witness ==
    /\ clast.op = "__init__"
    /\ envvar = EnvOther
    /\ Exists(EnvOther)
    /\ ~ Exists(HerePath)
    /\ config_file = HomePath

(***************************************************************************)
(* More properties of the settings container (checked under SpecConfig).   *)
(***************************************************************************)
SetsEmpty == clast'.op = "set" /\ clast'.key \in Required /\ clast'.value = Str("")

\* C17 as stated: set() on a required key with the empty string raises the
\* config error, as it does for None, and leaves the store as it was.
C17_EmptyRejected ==
    [][ SetsEmpty => (clast'.err = "FMConfigError" /\ store' = store) ]_vars

\* C17 amended: set() on a required key with the empty string does not raise;
\* the empty string becomes the key's value and the other keys keep theirs.
\* Only None is rejected with the config error.
C17_EmptyStored ==
    /\ [][ SetsEmpty
              => /\ clast'.err = "none"
                 /\ get(store', clast'.key) = Str("")
                 /\ \A k \in (DOMAIN store \cup DOMAIN store') \ {clast'.key} :
                        get(store', k) = get(store, k) ]_vars
    /\ [][ (clast'.op = "set" /\ clast'.key \in Required /\ clast'.err = "FMConfigError")
              => clast'.value = None ]_vars

C17_Witness ==
    /\ clast.op = "set"
    /\ clast.key = "apikey"
    /\ clast.value = Str("")
    /\ clast.err = "none"
    /\ get(store, "apikey") = Str("")
    /\ get(store, "name") = Str("v")

\* load() got as far as reading a file: the path it used exists
LoadsFile == clast'.op = "load" /\ config_file' # NoPath /\ Exists(config_file')
LoadUser == get(store, "username").s
LoadFile == fs[config_file']
HasSection == LoadUser \in DOMAIN LoadFile.sections

\* option names as the parser reports them
Folded(d) ==
    [k \in { optionxform(r) : r \in DOMAIN d } |->
        d[CHOOSE r \in DOMAIN d : optionxform(r) = k]]

Keys == Schema \cup DOMAIN store \cup DOMAIN store'

\* C15 as stated: load() merges exactly the section named after the username:
\* every schema key of the section has its on-disk value afterwards, every key
\* not in the section keeps its value, and without such a section nothing
\* changes.
C15_LoadMergesSection ==
    [][ LoadsFile
          => IF HasSection
             THEN LET sec == Folded(LoadFile.sections[LoadUser])
                  IN  /\ \A k \in Schema \cap DOMAIN sec : get(store', k) = Str(sec[k])
                      /\ \A k \in Keys \ DOMAIN sec : get(store', k) = get(store, k)
             ELSE store' = store ]_vars

\* C15 amended: load() merges the options the parser reports for the section
\* named after the username, which are the section's own options over those
\* of the DEFAULT section, through set() one at a time.  When all of them are
\* schema keys, each has its on-disk value afterwards and every other key
\* keeps its value.  When one is not, load() raises AttributeError, and each
\* key either keeps its value or, being a schema key among those options, has
\* its on-disk value.  Without such a section nothing changes.
C15_LoadMergesItems ==
    [][ LoadsFile
          => IF HasSection
             THEN LET disk == Folded(LoadFile.sections[LoadUser]) @@ Folded(LoadFile.defaults)
                  IN  IF DOMAIN disk \subseteq Schema
                      THEN /\ clast'.err = "none"
                           /\ \A k \in DOMAIN disk : get(store', k) = Str(disk[k])
                           /\ \A k \in Keys \ DOMAIN disk : get(store', k) = get(store, k)
                      ELSE /\ clast'.err = "AttributeError"
                           /\ \A k \in Keys :
                                \/ get(store', k) = get(store, k)
                                \/ (k \in Schema \cap DOMAIN disk /\ get(store', k) = Str(disk[k]))
             ELSE clast'.err = "none" /\ store' = store ]_vars

C15_Witness ==
    /\ clast.op = "load"
    /\ config_file = HomePath
    /\ Exists(HomePath)
    /\ get(store, "username") = Str("bob")
    /\ get(store, "password") = Str("pb")
    /\ get(store, "email") = Str("d@x")
    /\ get(store, "apikey") = Str("v")

(***************************************************************************)
(* More properties of User (checked under Spec).                           *)
(***************************************************************************)
LoginOps == {"login", "__init__"}
Carries(req, key, value) == key \in DOMAIN req /\ req[key] = value

\* C12: every remote call of an operation other than login carries the apikey
\* of the stored credentials and the session's current logintoken in its
\* parameters; the login call carries the apikey and no logintoken.
C12_CallsCarryCredentials ==
    last.calls = 1
        => /\ Carries(last.req, "apikey", DictGet(config, "apikey"))
           /\ IF last.op \in LoginOps
              THEN "logintoken" \notin DOMAIN last.req
              ELSE Carries(last.req, "logintoken", Token(pre.cookies))

ListingOps == {"get_sent", "get_received_files"}

\* C13: a listing of n records comes back as n handles in the response's
\* order, the i-th holding the i-th record's fields; its owner is the calling
\* User exactly when the record's `from` is the current username, and is
\* that `from` value otherwise.
C13_RestoreInOrder ==
    (last.op \in ListingOps /\ last.err = "none")
        => /\ Len(last.ret) = Len(last.body)
           /\ \A i \in 1..Len(last.body) :
                /\ last.ret[i].transfer_info = last.body[i]
                /\ last.ret[i].owner.self <=> (last.body[i].from = username)
                /\ ~ last.ret[i].owner.self => last.ret[i].owner.name = last.body[i].from

C13_Witness ==
    /\ last.op = "get_sent"
    /\ last.err = "none"
    /\ Len(last.body) = 2
    /\ last.body[1].from = "bob"
    /\ last.body[2].from = username
    /\ Len(last.ret) = 2
    /\ last.ret[1].owner = [self |-> FALSE, name |-> "bob"]
    /\ last.ret[2].owner.self

\* C16: after every successful login the source cookie is the desktop value,
\* however the User was constructed.
C16_LoginSetsDesktop ==
    (last.op = "login" /\ last.status = 200)
        => DictGet(cookies, "source") = Str("Desktop")

FrameOps ==
    {"get_sent", "get_received_files", "get_user_info", "update_user_info",
     "get_contacts", "get_contact", "update_contact", "add_contact",
     "delete_contact"}

\* C19: none of the nine account operations changes logintoken or logged_in,
\* whether it succeeds or fails; a method takes logged_in from false to true
\* only if it is login, and from true to false only if it is a logout that
\* received the success status.
C19_AuthOnlyLoginLogout ==
    /\ last.op \in FrameOps
          => /\ Token(cookies) = Token(pre.cookies)
             /\ logged_in(cookies) = logged_in(pre.cookies)
    /\ (~ logged_in(pre.cookies) /\ logged_in(cookies)) => last.op = "login"
    /\ (logged_in(pre.cookies) /\ ~ logged_in(cookies))
          => (last.op = "logout" /\ last.status = 200)

C19_Witness ==
    /\ last.op = "get_user_info"
    /\ last.err = "FMRemoteError"
    /\ logged_in(pre.cookies)
    /\ Token(cookies) = Str("tok1")
    /\ SomeIncomplete(transfers)

\* C20: update_user_info(**kwargs) invoked while anonymous leaves the local
\* config unchanged; invoked while authenticated it merges kwargs into the
\* local config and makes the call, and when the answer is not the success
\* status the error is raised and the merged values stay in the config.
C20_MergeKeptOnFailure ==
    last.op = "update_user_info"
        => IF ~ logged_in(pre.cookies)
           THEN /\ last.err = "FMBaseError:login"
                /\ last.calls = 0
                /\ config = pre.config
           ELSE /\ last.calls = 1
                /\ config = DictUpdate(pre.config, last.arg)
                /\ last.req = config
                /\ last.status # 200 => last.err = "FMRemoteError"

C20_Witness ==
    /\ last.op = "update_user_info"
    /\ last.err = "FMRemoteError"
    /\ last.arg = ("apikey" :> Str("KEY2"))
    /\ DictGet(pre.config, "apikey") = Str("KEY1")
    /\ DictGet(config, "apikey") = Str("KEY2")

====
